---- MODULE Spec2Model ----
(***************************************************************************)
(* Model of matmethods/vasp/firetasks/parse_outputs.py: the two firetasks  *)
(* VaspToDbTask and ToDbTask.  One run of run_task is a chain of steps:    *)
(* resolve the calculation directory, assimilate it into a task document,  *)
(* move the large fields to GridFS, insert the document (or write          *)
(* task.json), and return the FWAction.                                    *)
(*                                                                         *)
(* Python dicts are functions whose DOMAIN is the set of keys present.     *)
(* Leaf values (paths, payloads, ids) are pairs <<tag, n>>.                *)
(***************************************************************************)
EXTENDS Integers, Sequences, FiniteSets, TLC

VARIABLES task, self, fw_spec, pc, calc_dir, history_read, db_file,
          drone_doc, task_doc, db, gridfs, collection, files, calls,
          t_id, action, err

vars == <<task, self, fw_spec, pc, calc_dir, history_read, db_file,
          drone_doc, task_doc, db, gridfs, collection, files, calls,
          t_id, action, err>>

\* Longest fw_spec["calc_locs"] history, longest calcs_reversed list.
MaxHist == 2
MaxCalcs == 2

----------------------------------------------------------------------------
(* Python values *)

\* None is a 1-tuple: it differs in length from every other value
None == <<"None">>
EmptyDict == [k \in {} |-> None]

\* task_doc = None (line 71 / 155): the name bound to no document
NoDoc == [None |-> "None"]

\* parameter values carry their Python type: Str("relax"), Bool("True")
Str(s) == <<"str", s>>
Bool(b) == <<"bool", b>>

\* dict.get(key, default) and d[key] with its KeyError
HasKey(d, k) == k \in DOMAIN d
Get(d, k, default) == IF HasKey(d, k) THEN d[k] ELSE default

\* truth value of a parameter: None, False and "" are falsy
Truthy(v) ==
  CASE v = None -> FALSE
    [] v[1] = "bool" -> v[2] = "True"
    [] v[1] = "str" -> v[2] # ""
    [] OTHER -> TRUE

\* isinstance(v, six.string_types)
IsString(v) == v[1] = "str"

\* os.getcwd()
Cwd == <<"cwd", 0>>
ExplicitDir == <<"explicit", 0>>
NoPath == <<"unset", 0>>

----------------------------------------------------------------------------
(* Location resolution, lines 55-65 / 137-147 *)

\* for doc in reversed(locs): if doc["name"] == name: return doc["path"]
\* i is the position the scan is at; 0 means the scan ended without a match.
RECURSIVE ScanReversed(_, _, _)
ScanReversed(locs, i, name) ==
  IF i = 0 THEN [found |-> FALSE, path |-> NoPath]
  ELSE IF locs[i]["name"] = name THEN [found |-> TRUE, path |-> locs[i]["path"]]
  ELSE ScanReversed(locs, i - 1, name)

\* line 58 / 140: self.get("calc_loc")
\* (variant: the key is tested for presence, not for truth)
SelectorGiven_KeyPresent(slf) == HasKey(slf, "calc_loc")
SelectorGiven(slf) == Truthy(Get(slf, "calc_loc", None))

\* line 56 / 138: "calc_dir" in self
\* (variant: a selector takes priority over the explicit directory)
ExplicitGiven_UnlessSelector(slf) ==
  HasKey(slf, "calc_dir") /\ ~SelectorGiven(slf)
ExplicitGiven(slf) == HasKey(slf, "calc_dir")

\* lines 60-63 / 142-145: the name the scan compares each record with is
\* self["calc_loc_name"], read at the first record; a history without
\* records never reads it
ByName(slf, locs) ==
  IF Len(locs) = 0
    THEN [calc_dir |-> Cwd, err |-> "None", read |-> TRUE]
  ELSE IF ~HasKey(slf, "calc_loc_name")
    THEN [calc_dir |-> Cwd, err |-> "KeyError", read |-> TRUE]
  ELSE LET r == ScanReversed(locs, Len(locs), slf["calc_loc_name"])
       IN [calc_dir |-> IF r.found THEN r.path ELSE Cwd,
           err |-> "None", read |-> TRUE]

\* line 65 / 147: fw_spec["calc_locs"][-1]["path"]
MostRecent(locs) ==
  IF Len(locs) = 0
    THEN [calc_dir |-> Cwd, err |-> "IndexError", read |-> TRUE]
  ELSE [calc_dir |-> locs[Len(locs)]["path"], err |-> "None", read |-> TRUE]

\* The outcome of the resolution block: the calc_dir it leaves, the exception
\* it raises ("None" when it raises none), whether fw_spec["calc_locs"] was read.
ResolveCalcDir(slf, spec) ==
  IF ExplicitGiven(slf)
    THEN [calc_dir |-> slf["calc_dir"], err |-> "None", read |-> FALSE]
  ELSE IF SelectorGiven(slf)
    THEN IF ~HasKey(spec, "calc_locs")
           THEN [calc_dir |-> Cwd, err |-> "KeyError", read |-> TRUE]
         ELSE IF IsString(slf["calc_loc"])
           THEN ByName(slf, spec["calc_locs"])
         ELSE MostRecent(spec["calc_locs"])
  ELSE [calc_dir |-> Cwd, err |-> "None", read |-> FALSE]

----------------------------------------------------------------------------
(* Collaborators: env_chk, the drone, json.dumps, MMDb *)

\* the key named by an indirection token ">>key<<"; "" for a literal value
EnvKey(s) == IF s = ">>db_file<<" THEN "db_file" ELSE ""

\* env_chk(val, fw_spec): None stays None, a token ">>key<<" is looked up in
\* fw_spec["_fw_env"], any other value is returned as it is
env_chk(val, spec) ==
  IF val = None THEN None
  ELSE IF IsString(val) /\ EnvKey(val[2]) # ""
    THEN spec["_fw_env"][EnvKey(val[2])]
  ELSE val

\* line 79 / 159: "if not db_file" takes the local-file branch
\* (variant: "if db_file is None")
StoreConfigured_NotNone(dbf) == dbf # None
StoreConfigured(dbf) == Truthy(dbf)

\* MMDb.insert(d): the document lands in the collection as one unit and the
\* store assigns it an identifier; the caller's document is as it was
db_insert(coll, d) ==
  [collection |-> Append(coll, d), id |-> <<"tid", Len(coll) + 1>>, doc |-> d]

\* MMDb.insert_gridfs(data, namespace): the blob lands under a new store id,
\* with the compression the store chose
insert_gridfs(fs, data, namespace, compression_type) ==
  LET gfs_id == <<"gfs", Len(fs) + 1>>
  IN [gridfs |-> Append(fs, [id |-> gfs_id, namespace |-> namespace,
                             data |-> data, compression |-> compression_type]),
      id |-> gfs_id]

\* the compression tags a store reports
CompressionTypes == {<<"zlib", 0>>, <<"none", 0>>}

\* json.dumps(obj, ...): the text that encodes obj
json_dumps(obj) == <<"json", obj>>

\* the file open("task.json", "w") leaves when nothing was written to it
EmptyText == <<"json">>

\* the keys that replace an offloaded field
FsIdKey(f) == IF f = "dos" THEN "dos_fs_id" ELSE "bandstructure_fs_id"
CompressionKey(f) ==
  IF f = "dos" THEN "dos_compression" ELSE "bandstructure_compression"

\* d without key k (del d[k])
Del(d, k) == [x \in DOMAIN d \ {k} |-> d[x]]

\* d with d[k] = v
Put(d, k, v) == (k :> v) @@ d

\* What lines 92-93 / 99-100 decide for field f: "skip" (nothing to do),
\* "IndexError" (calcs_reversed[0] of an empty list), "offload".
OffloadCase(enabled, doc, f) ==
  IF ~(enabled /\ HasKey(doc, "calcs_reversed")) THEN "skip"
  ELSE IF Len(doc["calcs_reversed"]) = 0 THEN "IndexError"
  ELSE IF HasKey(doc["calcs_reversed"][1], f) THEN "offload"
  ELSE "skip"

\* Lines 96-98 / 103-105: the document after the blob of f was stored
\* (variant: every calculation step that carries f is rewritten)
OffloadedDoc_AllSteps(doc, f, gfs_id, compression_type) ==
  [doc EXCEPT !["calcs_reversed"] =
     [i \in DOMAIN doc["calcs_reversed"] |->
        IF HasKey(doc["calcs_reversed"][i], f)
          THEN Del(Put(Put(doc["calcs_reversed"][i],
                           CompressionKey(f), compression_type),
                       FsIdKey(f), gfs_id), f)
          ELSE doc["calcs_reversed"][i]]]
\* (variant: the "del" of line 98 / 105 is missing)
OffloadedDoc_KeepInline(doc, f, gfs_id, compression_type) ==
  [doc EXCEPT !["calcs_reversed"] =
     [@ EXCEPT ![1] =
        Put(Put(@, CompressionKey(f), compression_type), FsIdKey(f), gfs_id)]]
OffloadedDoc(doc, f, gfs_id, compression_type) ==
  [doc EXCEPT !["calcs_reversed"] =
     [@ EXCEPT ![1] =
        Del(Put(Put(@, CompressionKey(f), compression_type),
                FsIdKey(f), gfs_id), f)]]

\* FWAction(stored_data={"task_id": ...}, defuse_children=...), lines 109-110
\* (variant: a run without a task_id defuses its children too)
FWAction_DefuseWithoutId(doc) ==
  [stored_data |-> [task_id |-> Get(doc, "task_id", None)],
   defuse_children |-> (doc["state"] # "successful" \/ ~HasKey(doc, "task_id"))]
FWAction(doc) ==
  [stored_data |-> [task_id |-> Get(doc, "task_id", None)],
   defuse_children |-> (doc["state"] # "successful")]

----------------------------------------------------------------------------
(* Inputs *)

Tasks == {"VaspToDbTask", "ToDbTask"}

Opt(k, vals) == {EmptyDict} \cup {k :> v : v \in vals}

Names == {"relax", "static"}

\* fw_spec["calc_locs"]: record i was appended by the i-th earlier step
LocRecord(name, i) == [name |-> name, path |-> <<"calc", i>>]
Histories(n) ==
  UNION {{[i \in 1..m |-> LocRecord(ns[i], i)] : ns \in [1..m -> Names]}
         : m \in 0..n}

FwEnv == "_fw_env" :> [db_file |-> Str("/env/db.json")]

\* the location parameters and histories of the resolver runs
ResolverSelves ==
  {a @@ b @@ c :
     a \in Opt("calc_dir", {ExplicitDir}),
     b \in Opt("calc_loc", {Bool("False"), Bool("True"), Str("")}
                              \cup {Str(n) : n \in Names}),
     c \in Opt("calc_loc_name", {"static"})}
ResolverFwSpecs ==
  {h @@ FwEnv : h \in Opt("calc_locs", Histories(MaxHist))}

\* the store parameters of a task
StoreSelves(t) ==
  IF t = "ToDbTask"
    THEN {("drone" :> Str("drone")) @@ d :
            d \in Opt("db_file", {Str(""), Str("db.json"), Str(">>db_file<<")})}
  ELSE {p @@ b @@ d @@ bd @@ ix :
          p \in Opt("parse_dos", {Bool("True")}),
          b \in Opt("bandstructure_mode", {Str("uniform")}),
          d \in Opt("db_file", {Str(""), Str("db.json"), Str(">>db_file<<")}),
          bd \in Opt("build_db", {Bool("True")}),
          ix \in Opt("db_indices", {<<>>, <<"task_id">>})}

\* the few store parameters the resolver runs use
FewStoreSelves(t) ==
  {s \in StoreSelves(t) :
     /\ HasKey(s, "db_file") => s["db_file"] = Str("db.json")
     /\ t = "VaspToDbTask" =>
          /\ DOMAIN s \ {"db_file"} =
               {"parse_dos", "bandstructure_mode", "build_db", "db_indices"}
          /\ s["db_indices"] # <<>>}

\* the few location parameters the store runs use
FewResolverSelves == Opt("calc_loc", {Bool("True")})
FewResolverFwSpecs == {("calc_locs" :> h) @@ FwEnv : h \in Histories(1)}

\* The documents the drone can return: a state, perhaps a task_id, perhaps
\* calcs_reversed, whose first element may carry the large fields.
FieldKeys == {"dos", "bandstructure", "energy"}
OlderKeysets == {{"dos", "bandstructure"}, {"energy"}}
Step(keys, i) == [k \in keys |-> <<k, i>>]
CalcsLists ==
  UNION {{[i \in 1..n |-> Step(ks[i], i)] :
            ks \in {f \in [1..n -> SUBSET FieldKeys \ {{}}] :
                      \A i \in 2..n : f[i] \in OlderKeysets}}
         : n \in 0..MaxCalcs}
Docs ==
  {("state" :> s) @@ t @@ c :
     s \in {"successful", "error"},
     t \in Opt("task_id", {<<"task", 7>>}),
     c \in Opt("calcs_reversed", CalcsLists)}

----------------------------------------------------------------------------
(* One run of run_task *)

\* Selves maps each task to the parameter dicts it may be constructed with
InitWith(Selves, FwSpecs) ==
  /\ task \in Tasks
  /\ self \in Selves[task]
  /\ fw_spec \in FwSpecs
  /\ pc = "START"
  /\ calc_dir = NoPath
  /\ history_read = FALSE
  /\ db_file = None
  /\ drone_doc = NoDoc
  /\ task_doc = NoDoc
  /\ db = "None"
  /\ gridfs = <<>>
  /\ collection = <<>>
  /\ files = <<>>
  /\ calls = <<>>
  /\ t_id = None
  /\ action = None
  /\ err = "None"

Call(op, arg) == [op |-> op, arg |-> arg]

\* an exception leaves run_task
\* (variant: the failing step is caught and tried again)
Raise_Retry(e) == pc' = pc /\ err' = e
Raise(e) == pc' = "ABORTED" /\ err' = e

\* lines 55-65 and 137-147
ResolveLocation ==
  /\ pc = "START"
  /\ LET r == ResolveCalcDir(self, fw_spec)
     IN /\ calc_dir' = r.calc_dir
        /\ history_read' = r.read
        /\ IF r.err = "None"
             THEN pc' = "RESOLVED" /\ err' = err
             ELSE Raise(r.err)
  /\ UNCHANGED <<task, self, fw_spec, db_file, drone_doc, task_doc, db,
                 gridfs, collection, files, calls, t_id, action>>

\* lines 69-77 and 153-158: env_chk, then drone.assimilate(calc_dir)
\* (variant: the store is opened where db_file is resolved, before the drone runs)
Assimilate_ConnectFirst ==
  /\ pc = "RESOLVED"
  /\ db_file' = env_chk(Get(self, "db_file", None), fw_spec)
  /\ calls' = Append(calls, Call("assimilate", calc_dir))
  /\ \/ \E d \in Docs :
          /\ drone_doc' = d
          /\ task_doc' = d
          /\ pc' = "ASSIMILATED"
          /\ err' = err
     \/ /\ Raise("AssimilationFailed")
        /\ UNCHANGED <<drone_doc, task_doc>>
  /\ db' = IF StoreConfigured(db_file') THEN "open" ELSE db
  /\ UNCHANGED <<task, self, fw_spec, calc_dir, history_read, gridfs,
                 collection, files, t_id, action>>
Assimilate ==
  /\ pc = "RESOLVED"
  /\ db_file' = env_chk(Get(self, "db_file", None), fw_spec)
  /\ calls' = Append(calls, Call("assimilate", calc_dir))
  /\ \/ \E d \in Docs :
          /\ drone_doc' = d
          /\ task_doc' = d
          /\ pc' = "ASSIMILATED"
          /\ err' = err
     \/ /\ Raise("AssimilationFailed")
        /\ UNCHANGED <<drone_doc, task_doc>>
  /\ UNCHANGED <<task, self, fw_spec, calc_dir, history_read, db, gridfs,
                 collection, files, t_id, action>>

\* lines 79-81 and 159-161: open("task.json", "w"), then write json.dumps
WriteLocalFile ==
  /\ pc = "ASSIMILATED"
  /\ ~StoreConfigured(db_file)
  /\ \/ /\ calls' = Append(calls, Call("write", "task.json"))
        /\ files' = Append(files, [name |-> "task.json",
                                   content |-> json_dumps(task_doc)])
        /\ pc' = "PERSISTED"
        /\ err' = err
     \/ /\ calls' = Append(calls, Call("write", "task.json"))
        /\ files' = Append(files, [name |-> "task.json", content |-> EmptyText])
        /\ Raise("SerializationFailed")
     \/ /\ calls' = Append(calls, Call("write", "task.json"))
        /\ files' = files
        /\ Raise("LocalWriteFailed")
  /\ UNCHANGED <<task, self, fw_spec, calc_dir, history_read, db_file,
                 drone_doc, task_doc, db, gridfs, collection, t_id, action>>

\* lines 83-86 and 163-167: get_settings(db_file), then MMDb(...)
Connect ==
  /\ pc = "ASSIMILATED"
  /\ StoreConfigured(db_file)
  /\ \/ /\ calls' = Append(calls, Call("connect", db_file))
        /\ db' = "open"
        /\ pc' = "CONNECTED"
        /\ err' = err
     \/ /\ calls' = calls
        /\ db' = db
        /\ Raise("MalformedStoreConfig")
     \/ /\ calls' = Append(calls, Call("connect", db_file))
        /\ db' = db
        /\ Raise("DocumentStoreUnavailable")
  /\ UNCHANGED <<task, self, fw_spec, calc_dir, history_read, db_file,
                 drone_doc, task_doc, gridfs, collection, files, t_id, action>>

\* (variant: the test of build_db at line 88 is missing)
BuildIndices_IgnoreBuildDb ==
  /\ pc = "CONNECTED"
  /\ task = "VaspToDbTask"
  /\ IF Len(Get(self, "db_indices", <<>>)) > 0
       THEN /\ calls' = Append(calls, Call("build", self["db_indices"]))
            /\ \/ pc' = "INDEXED" /\ err' = err
               \/ Raise("DocumentStoreUnavailable")
       ELSE /\ calls' = calls
            /\ pc' = "INDEXED"
            /\ err' = err
  /\ UNCHANGED <<task, self, fw_spec, calc_dir, history_read, db_file,
                 drone_doc, task_doc, db, gridfs, collection, files, t_id,
                 action>>

\* lines 88-90: db.build(indices=db_indices), VaspToDbTask only
BuildIndices ==
  /\ pc = "CONNECTED"
  /\ task = "VaspToDbTask"
  /\ IF Truthy(Get(self, "build_db", Bool("False")))
        /\ Len(Get(self, "db_indices", <<>>)) > 0
       THEN /\ calls' = Append(calls, Call("build", self["db_indices"]))
            /\ \/ pc' = "INDEXED" /\ err' = err
               \/ Raise("DocumentStoreUnavailable")
       ELSE /\ calls' = calls
            /\ pc' = "INDEXED"
            /\ err' = err
  /\ UNCHANGED <<task, self, fw_spec, calc_dir, history_read, db_file,
                 drone_doc, task_doc, db, gridfs, collection, files, t_id,
                 action>>

\* lines 92-98 (f = "dos") and 99-105 (f = "bandstructure")
\* (variant: the inline field is deleted before insert_gridfs has returned)
Offload_MutateBeforeStore(f, param, namespace, from, to) ==
  /\ pc = from
  /\ LET c == OffloadCase(Truthy(Get(self, param, Bool("False"))), task_doc, f)
     IN CASE c = "skip" ->
               /\ pc' = to
               /\ UNCHANGED <<task_doc, gridfs, calls, err>>
          [] c = "IndexError" ->
               /\ Raise("IndexError")
               /\ UNCHANGED <<task_doc, gridfs, calls>>
          [] c = "offload" ->
               \/ /\ Raise("SerializationFailed")
                  /\ UNCHANGED <<task_doc, gridfs, calls>>
               \/ /\ calls' = Append(calls, Call("insert_gridfs", namespace))
                  /\ Raise("BlobStoreUnavailable")
                  /\ task_doc' = [task_doc EXCEPT !["calcs_reversed"] =
                                    [@ EXCEPT ![1] = Del(@, f)]]
                  /\ gridfs' = gridfs
               \/ \E compression_type \in CompressionTypes :
                    LET r == insert_gridfs(
                               gridfs,
                               json_dumps(task_doc["calcs_reversed"][1][f]),
                               namespace, compression_type)
                    IN /\ calls' = Append(calls, Call("insert_gridfs", namespace))
                       /\ gridfs' = r.gridfs
                       /\ task_doc' = OffloadedDoc(task_doc, f, r.id,
                                                   compression_type)
                       /\ pc' = to
                       /\ err' = err
  /\ UNCHANGED <<task, self, fw_spec, calc_dir, history_read, db_file,
                 drone_doc, db, collection, files, t_id, action>>
Offload(f, param, namespace, from, to) ==
  /\ pc = from
  /\ LET c == OffloadCase(Truthy(Get(self, param, Bool("False"))), task_doc, f)
     IN CASE c = "skip" ->
               /\ pc' = to
               /\ UNCHANGED <<task_doc, gridfs, calls, err>>
          [] c = "IndexError" ->
               /\ Raise("IndexError")
               /\ UNCHANGED <<task_doc, gridfs, calls>>
          [] c = "offload" ->
               \/ /\ Raise("SerializationFailed")
                  /\ UNCHANGED <<task_doc, gridfs, calls>>
               \/ /\ calls' = Append(calls, Call("insert_gridfs", namespace))
                  /\ Raise("BlobStoreUnavailable")
                  /\ UNCHANGED <<task_doc, gridfs>>
               \/ \E compression_type \in CompressionTypes :
                    LET r == insert_gridfs(
                               gridfs,
                               json_dumps(task_doc["calcs_reversed"][1][f]),
                               namespace, compression_type)
                    IN /\ calls' = Append(calls, Call("insert_gridfs", namespace))
                       /\ gridfs' = r.gridfs
                       /\ task_doc' = OffloadedDoc(task_doc, f, r.id,
                                                   compression_type)
                       /\ pc' = to
                       /\ err' = err
  /\ UNCHANGED <<task, self, fw_spec, calc_dir, history_read, db_file,
                 drone_doc, db, collection, files, t_id, action>>

OffloadDos ==
  Offload("dos", "parse_dos", "dos_fs", "INDEXED", "DOS_OFFLOADED")

OffloadBandstructure ==
  Offload("bandstructure", "bandstructure_mode", "bandstructure_fs",
          "DOS_OFFLOADED", "OFFLOADED")

\* lines 107 and 169: t_id = db.insert(task_doc)
\* (variant: the insert of line 107 precedes the offload blocks)
InsertDoc_BeforeOffload ==
  /\ \/ pc = "INDEXED" /\ task = "VaspToDbTask"
     \/ pc = "CONNECTED" /\ task = "ToDbTask"
  /\ calls' = Append(calls, Call("insert", task_doc))
  /\ \/ LET r == db_insert(collection, task_doc)
        IN /\ collection' = r.collection
           /\ t_id' = r.id
           /\ task_doc' = r.doc
           /\ pc' = "PERSISTED"
           /\ err' = err
     \/ /\ Raise("DocumentStoreUnavailable")
        /\ UNCHANGED <<collection, t_id, task_doc>>
  /\ UNCHANGED <<task, self, fw_spec, calc_dir, history_read, db_file,
                 drone_doc, db, gridfs, files, action>>
InsertDoc ==
  /\ \/ pc = "OFFLOADED" /\ task = "VaspToDbTask"
     \/ pc = "CONNECTED" /\ task = "ToDbTask"
  /\ calls' = Append(calls, Call("insert", task_doc))
  /\ \/ LET r == db_insert(collection, task_doc)
        IN /\ collection' = r.collection
           /\ t_id' = r.id
           /\ task_doc' = r.doc
           /\ pc' = "PERSISTED"
           /\ err' = err
     \/ /\ Raise("DocumentStoreUnavailable")
        /\ UNCHANGED <<collection, t_id, task_doc>>
  /\ UNCHANGED <<task, self, fw_spec, calc_dir, history_read, db_file,
                 drone_doc, db, gridfs, files, action>>

\* lines 109-110 and 172-173
\* (variant: task_doc["task_id"] instead of task_doc.get("task_id", None))
Report_SubscriptTaskId ==
  /\ pc = "PERSISTED"
  /\ IF HasKey(task_doc, "task_id")
       THEN action' = FWAction(task_doc) /\ pc' = "REPORTED" /\ err' = err
       ELSE action' = action /\ Raise("KeyError")
  /\ UNCHANGED <<task, self, fw_spec, calc_dir, history_read, db_file,
                 drone_doc, task_doc, db, gridfs, collection, files, calls,
                 t_id>>
Report ==
  /\ pc = "PERSISTED"
  /\ action' = FWAction(task_doc)
  /\ pc' = "REPORTED"
  /\ UNCHANGED <<task, self, fw_spec, calc_dir, history_read, db_file,
                 drone_doc, task_doc, db, gridfs, collection, files, calls,
                 t_id, err>>

Next ==
  \/ ResolveLocation
  \/ Assimilate
  \/ WriteLocalFile
  \/ Connect
  \/ BuildIndices
  \/ OffloadDos
  \/ OffloadBandstructure
  \/ InsertDoc
  \/ Report

\* runs that vary the store parameters and the drone's document
PipelineSelves ==
  [t \in Tasks |-> {a @@ s : a \in FewResolverSelves, s \in StoreSelves(t)}]
Init == InitWith(PipelineSelves, FewResolverFwSpecs)
Spec == Init /\ [][Next]_vars

\* runs that vary the location parameters and the history
LocationSelves ==
  [t \in Tasks |-> {a @@ s : a \in ResolverSelves, s \in FewStoreSelves(t)}]
InitResolve == InitWith(LocationSelves, ResolverFwSpecs)
SpecResolve == InitResolve /\ [][Next]_vars

----------------------------------------------------------------------------
(* Properties of the location resolution (checked under SpecResolve) *)

\* the directories drone.assimilate was called with
HandedDirs == {calls[i].arg : i \in {j \in DOMAIN calls : calls[j].op = "assimilate"}}

\* the run left the resolution block with an exception
ResolutionFailed == pc = "ABORTED" /\ calls = <<>>

\* the path of the last record of locs named name
LastNamedPath(locs, name) ==
  LET i == CHOOSE k \in DOMAIN locs :
             /\ locs[k]["name"] = name
             /\ \A j \in DOMAIN locs : j > k => locs[j]["name"] # name
  IN locs[i]["path"]

NameSelectorPresent ==
  /\ ~HasKey(self, "calc_dir")
  /\ HasKey(self, "calc_loc")
  /\ self["calc_loc"] \in {Str(n) : n \in Names}
  /\ HasKey(fw_spec, "calc_locs")
  /\ \E i \in DOMAIN fw_spec["calc_locs"] :
       fw_spec["calc_locs"][i]["name"] = self["calc_loc"][2]

\* C1: with no calc_dir and a calc_loc name that occurs in calc_locs, the
\* resolution succeeds and the directory resolved and handed to the
\* assimilator is the path of the last record whose name equals calc_loc.
C1_LastRecordNamedCalcLoc ==
  (NameSelectorPresent /\ pc # "START") =>
     /\ ~ResolutionFailed
     /\ calc_dir = LastNamedPath(fw_spec["calc_locs"], self["calc_loc"][2])
     /\ HandedDirs \subseteq
          {LastNamedPath(fw_spec["calc_locs"], self["calc_loc"][2])}

NoSelector ==
  /\ ~HasKey(self, "calc_dir")
  /\ \/ ~HasKey(self, "calc_loc")
     \/ self["calc_loc"] \in {Bool("False"), Str("")}

\* C2: with neither calc_dir nor a truthy calc_loc the resolution cannot fail
\* and the directory handed to the assimilator is the current working
\* directory, whatever fw_spec["calc_locs"] holds, also when it is missing.
C2_DefaultIsCwd ==
  (NoSelector /\ pc # "START") =>
     /\ ~ResolutionFailed
     /\ calc_dir = Cwd
     /\ HandedDirs \subseteq {Cwd}
     /\ (pc # "RESOLVED" => HandedDirs = {Cwd})

C2_Witness ==
  /\ pc = "ASSIMILATED"
  /\ HasKey(self, "calc_loc") /\ self["calc_loc"] = Bool("False")
  /\ HasKey(self, "calc_loc_name")
  /\ HasKey(fw_spec, "calc_locs") /\ Len(fw_spec["calc_locs"]) = MaxHist
  /\ HandedDirs = {Cwd}
  /\ NoSelector

\* C3: with calc_dir given, the directory handed to the assimilator is
\* calc_dir itself for every calc_loc and every history; the history is not
\* read and the resolution raises nothing.
C3_ExplicitVerbatim ==
  (HasKey(self, "calc_dir") /\ pc # "START") =>
     /\ ~ResolutionFailed
     /\ ~history_read
     /\ calc_dir = self["calc_dir"]
     /\ HandedDirs \subseteq {self["calc_dir"]}
     /\ (pc # "RESOLVED" => HandedDirs = {self["calc_dir"]})

C3_Witness ==
  /\ pc = "ASSIMILATED"
  /\ HasKey(self, "calc_dir")
  /\ HasKey(self, "calc_loc") /\ self["calc_loc"] = Str("relax")
  /\ ~HasKey(fw_spec, "calc_locs")
  /\ HandedDirs = {ExplicitDir}

----------------------------------------------------------------------------
(* Properties of the offload and of the persistence (checked under Spec) *)

LargeFields == {"dos", "bandstructure"}

\* parse_dos / bandstructure_mode is set for field f of a VaspToDbTask
FieldEnabled(f) ==
  /\ task = "VaspToDbTask"
  /\ IF f = "dos"
       THEN HasKey(self, "parse_dos") /\ self["parse_dos"] = Bool("True")
       ELSE /\ HasKey(self, "bandstructure_mode")
            /\ self["bandstructure_mode"] = Str("uniform")

\* the offload block of field f has been passed, with a store open
OffloadRan(f) ==
  /\ db = "open"
  /\ pc \in (IF f = "dos" THEN {"DOS_OFFLOADED"} ELSE {})
              \cup {"OFFLOADED", "PERSISTED", "REPORTED"}

NonEmptyCalcs(d) ==
  HasKey(d, "calcs_reversed") /\ Len(d["calcs_reversed"]) > 0

HasInline(step, f) == HasKey(step, f)
HasReference(step, f) ==
  HasKey(step, FsIdKey(f)) /\ HasKey(step, CompressionKey(f))

\* the documents db.insert was called with
InsertedDocs == {calls[i].arg : i \in {j \in DOMAIN calls : calls[j].op = "insert"}}
StoreOps == {"connect", "build", "insert_gridfs", "insert"}
StoreCalls == {i \in DOMAIN calls : calls[i].op \in StoreOps}

DbFileFalsy == db_file \in {None, Str("")}
DbFileResolved == pc \notin {"START", "RESOLVED"}

\* C4 as claimed: after the offload of an enabled field f on a document with
\* a non-empty calcs_reversed, calcs_reversed[0] holds exactly one of the
\* inline key f and the reference pair; so does the document given to insert.
C4_ExactlyOneOfInlineAndReference ==
  \A f \in LargeFields :
    (FieldEnabled(f) /\ drone_doc # NoDoc /\ NonEmptyCalcs(drone_doc)) =>
       /\ OffloadRan(f) =>
            (HasInline(task_doc["calcs_reversed"][1], f)
               # HasReference(task_doc["calcs_reversed"][1], f))
       /\ \A d \in InsertedDocs :
            (HasInline(d["calcs_reversed"][1], f)
               # HasReference(d["calcs_reversed"][1], f))

\* what the offload of f must have made of the drone's first step `before`
OffloadedAsAmended(before, after, f) ==
  /\ ~HasInline(after, f)
  /\ HasInline(before, f) => HasReference(after, f)
  /\ ~HasInline(before, f) =>
       /\ HasKey(after, FsIdKey(f)) = HasKey(before, FsIdKey(f))
       /\ HasKey(after, CompressionKey(f)) = HasKey(before, CompressionKey(f))

\* C4 as amended: after the offload of an enabled field f, calcs_reversed[0]
\* never holds the inline key f; it holds the reference pair whenever the
\* drone's calcs_reversed[0] held f, and the offload added nothing for f when
\* it did not (neither f nor its pair). The same holds of the document given
\* to insert.
C4_InlineReplacedByReference ==
  \A f \in LargeFields :
    (FieldEnabled(f) /\ drone_doc # NoDoc /\ NonEmptyCalcs(drone_doc)) =>
       /\ OffloadRan(f) =>
            OffloadedAsAmended(drone_doc["calcs_reversed"][1],
                               task_doc["calcs_reversed"][1], f)
       /\ \A d \in InsertedDocs :
            OffloadedAsAmended(drone_doc["calcs_reversed"][1],
                               d["calcs_reversed"][1], f)

C4_Witness ==
  /\ pc = "REPORTED"
  /\ Len(collection) = 1
  /\ FieldEnabled("dos") /\ FieldEnabled("bandstructure")
  /\ NonEmptyCalcs(drone_doc)
  /\ Len(drone_doc["calcs_reversed"]) = MaxCalcs
  /\ HasInline(drone_doc["calcs_reversed"][1], "dos")
  /\ ~HasInline(drone_doc["calcs_reversed"][1], "bandstructure")
  /\ HasReference(collection[1]["calcs_reversed"][1], "dos")
  /\ ~HasInline(collection[1]["calcs_reversed"][1], "dos")
  /\ ~HasReference(collection[1]["calcs_reversed"][1], "bandstructure")

\* C5: with a store configured and a field enabled, a document without
\* calcs_reversed, or with an empty one, passes the offload untouched: no
\* blob is stored, the document is unchanged and no IndexError is raised.
C5_EmptyCalcsOffloadIsNoOp ==
  (/\ drone_doc # NoDoc
   /\ ~DbFileFalsy
   /\ \E f \in LargeFields : FieldEnabled(f)
   /\ ~NonEmptyCalcs(drone_doc)) =>
     /\ task_doc = drone_doc
     /\ gridfs = <<>>
     /\ \A i \in DOMAIN calls : calls[i].op # "insert_gridfs"
     /\ err # "IndexError"

\* C6: a run whose db_file is falsy opens no store, builds no index, stores
\* no blob and inserts no document; when it has persisted, exactly one file,
\* task.json, holds the drone's document unchanged.
C6_NoStoreWritesOneLocalFile ==
  (DbFileResolved /\ DbFileFalsy) =>
     /\ db = "None"
     /\ StoreCalls = {}
     /\ gridfs = <<>>
     /\ collection = <<>>
     /\ task_doc = drone_doc
     /\ Len(files) <= 1
     /\ pc \in {"PERSISTED", "REPORTED"} =>
          files = <<[name |-> "task.json", content |-> json_dumps(drone_doc)]>>

C6_Witness ==
  /\ pc = "REPORTED"
  /\ db_file = Str("")
  /\ FieldEnabled("dos") /\ FieldEnabled("bandstructure")
  /\ HasKey(self, "build_db") /\ HasKey(self, "db_indices")
  /\ NonEmptyCalcs(drone_doc)
  /\ DOMAIN drone_doc["calcs_reversed"][1] = FieldKeys
  /\ Len(files) = 1
  /\ files[1].content[2]["calcs_reversed"][1] = drone_doc["calcs_reversed"][1]

\* C7: after a successful insert the outcome carries an assigned id, with
\* success (not defuse_children) true for state "successful" and false for
\* any other state.
C7_StoredOutcomeCarriesId ==
  (pc = "REPORTED" /\ Len(collection) = 1) =>
     /\ action.stored_data.task_id # None
     /\ (~action.defuse_children) = (drone_doc["state"] = "successful")

\* C8: the task_id of the outcome is the identifier db.insert returned when
\* the document was stored, and None when the local file was written.
C8_OutcomeIdIsInsertedId ==
  pc = "REPORTED" =>
     IF Len(collection) = 1
       THEN action.stored_data.task_id = t_id
       ELSE action.stored_data.task_id = None

\* C9: in every run that reports, defuse_children is true exactly when the
\* drone's document has a state other than "successful".
C9_DefuseIffNotSuccessful ==
  pc = "REPORTED" =>
     (action.defuse_children = (drone_doc["state"] # "successful"))

C9_Witness ==
  /\ pc = "REPORTED"
  /\ drone_doc["state"] = "error"
  /\ action.defuse_children
  /\ action.stored_data.task_id # None
  /\ Len(collection) = 1
  /\ Len(gridfs) = Cardinality(LargeFields)

\* C10: with no store configured, a document whose state is not "successful"
\* is persisted and reported like any other: the run can always take its
\* next step, only a failure of the file write itself aborts it, and the
\* reported outcome follows one written task.json and defuses the children.
C10_UnsuccessfulStateIsNoError ==
  (/\ DbFileFalsy
   /\ drone_doc # NoDoc
   /\ drone_doc["state"] # "successful") =>
     /\ pc \in {"ASSIMILATED", "PERSISTED", "REPORTED", "ABORTED"}
     /\ pc = "ASSIMILATED" => ENABLED WriteLocalFile
     /\ pc = "PERSISTED" => ENABLED Report
     /\ pc = "ABORTED" => err \in {"LocalWriteFailed", "SerializationFailed"}
     /\ pc = "REPORTED" =>
          /\ err = "None"
          /\ Len(files) = 1 /\ files[1].content = json_dumps(drone_doc)
          /\ action.defuse_children

C10_Witness ==
  /\ pc = "REPORTED"
  /\ DbFileFalsy
  /\ DOMAIN drone_doc = {"state"}
  /\ drone_doc["state"] = "error"
  /\ Len(files) = 1
  /\ action.defuse_children
  /\ err = "None"

----------------------------------------------------------------------------
(* Properties of the run as a whole (checked under Spec) *)

Terminal == pc \in {"REPORTED", "ABORTED"}

\* how often an external call was made
CallCount(op) == Cardinality({i \in DOMAIN calls : calls[i].op = op})
BlobCallCount(namespace) ==
  Cardinality({i \in DOMAIN calls :
                 calls[i].op = "insert_gridfs" /\ calls[i].arg = namespace})

\* C11: every external call is made at most once (the blob insert at most
\* once per field); a run that reports has persisted exactly once, by one
\* insert or by one file write; an aborted run surfaces an error and makes no
\* further step; nothing runs after a terminal state.
C11_PersistOnceNoRetry ==
  /\ \A op \in {"assimilate", "connect", "build", "insert", "write"} :
       CallCount(op) <= 1
  /\ \A ns \in {"dos_fs", "bandstructure_fs"} : BlobCallCount(ns) <= 1
  /\ CallCount("insert") + CallCount("write") <= 1
  /\ pc = "REPORTED" =>
       /\ CallCount("insert") + CallCount("write") = 1
       /\ Len(collection) + Len(files) = 1
       /\ err = "None"
  /\ (pc = "ABORTED") = (err # "None")
  /\ Terminal => ~ENABLED Next

C11_Witness ==
  /\ pc = "ABORTED"
  /\ err = "DocumentStoreUnavailable"
  /\ CallCount("build") = 1
  /\ BlobCallCount("dos_fs") = 1 /\ BlobCallCount("bandstructure_fs") = 1
  /\ CallCount("insert") = 1
  /\ calls[Len(calls)].op = "insert"
  /\ collection = <<>>

\* C12: when the serialization or the blob insert of field f fails, the
\* document is as it was before the offload of f began: calcs_reversed[0]
\* still holds f inline and neither f_fs_id nor f_compression.
C12_FailedOffloadLeavesInline ==
  [][\A f \in {"dos", "bandstructure"} :
       (/\ pc = (IF f = "dos" THEN "INDEXED" ELSE "DOS_OFFLOADED")
        /\ pc' = "ABORTED"
        /\ err' \in {"SerializationFailed", "BlobStoreUnavailable"}) =>
          /\ task_doc' = task_doc
          /\ HasKey(task_doc'["calcs_reversed"][1], f)
          /\ ~HasKey(task_doc'["calcs_reversed"][1], FsIdKey(f))
          /\ ~HasKey(task_doc'["calcs_reversed"][1], CompressionKey(f))]_vars

C12_Witness ==
  /\ pc = "ABORTED"
  /\ err = "BlobStoreUnavailable"
  /\ calls[Len(calls)] = Call("insert_gridfs", "bandstructure_fs")
  /\ Len(gridfs) = 1
  /\ HasKey(task_doc["calcs_reversed"][1], "bandstructure")
  /\ ~HasKey(task_doc["calcs_reversed"][1], "bandstructure_fs_id")
  /\ HasKey(task_doc["calcs_reversed"][1], "dos_fs_id")

\* the stage of the pipeline a position of run_task belongs to: the store is
\* opened and indexed, and the fields are offloaded, between ASSIMILATED and
\* OFFLOADED
Stage(p) ==
  CASE p = "START" -> 0
    [] p = "RESOLVED" -> 1
    [] p \in {"ASSIMILATED", "CONNECTED", "INDEXED", "DOS_OFFLOADED"} -> 2
    [] p = "OFFLOADED" -> 3
    [] p = "PERSISTED" -> 4
    [] p = "REPORTED" -> 5
    [] OTHER -> 6

\* the place of a position in the text of run_task
Position(p) ==
  CASE p = "START" -> 0
    [] p = "RESOLVED" -> 1
    [] p = "ASSIMILATED" -> 2
    [] p = "CONNECTED" -> 3
    [] p = "INDEXED" -> 4
    [] p = "DOS_OFFLOADED" -> 5
    [] p = "OFFLOADED" -> 6
    [] p = "PERSISTED" -> 7
    [] p = "REPORTED" -> 8
    [] OTHER -> 9

\* the place of an external call in the order of run_task
CallRank(c) ==
  CASE c.op = "assimilate" -> 1
    [] c.op = "connect" -> 2
    [] c.op = "build" -> 3
    [] c.op = "insert_gridfs" -> IF c.arg = "dos_fs" THEN 4 ELSE 5
    [] OTHER -> 6

\* a run with nothing to offload: no store, or a ToDbTask
NothingToOffload == task = "ToDbTask" \/ DbFileFalsy

\* C13: a run moves forward only, one stage at a time, from START through
\* RESOLVED, ASSIMILATED, OFFLOADED (passed without a step of its own when
\* there is nothing to offload) and PERSISTED to REPORTED, or to ABORTED;
\* REPORTED and ABORTED are the only states without a next step. The
\* directory is resolved before the assimilator is called, the assimilator
\* has returned before any store call, the blob inserts (dos, then
\* bandstructure) have completed before the document insert, and the insert
\* or the file write has completed before the outcome exists.
C13_LinearOrder ==
  /\ [](/\ Terminal = ~ENABLED Next
        /\ \A i, j \in DOMAIN calls :
             i < j => CallRank(calls[i]) < CallRank(calls[j])
        /\ calls # <<>> => pc # "START" /\ calc_dir # NoPath
        /\ (\E i \in DOMAIN calls : CallRank(calls[i]) > 1) => drone_doc # NoDoc
        /\ CallCount("insert") = 1 =>
             Len(gridfs) = CallCount("insert_gridfs")
        /\ pc = "REPORTED" =>
             /\ Len(collection) + Len(files) = 1
             /\ \A i \in DOMAIN files : files[i].content = json_dumps(task_doc))
  /\ [][/\ pc \notin {"REPORTED", "ABORTED"}
        /\ Position(pc') > Position(pc)
        /\ pc' # "ABORTED" =>
             \/ Stage(pc') = Stage(pc) + 1
             \/ Stage(pc') = Stage(pc)
             \/ NothingToOffload /\ Stage(pc) = Stage("ASSIMILATED")
                  /\ pc' = "PERSISTED"]_vars

C13_Witness ==
  /\ pc = "REPORTED"
  /\ Len(calls) = CallRank(Call("insert", task_doc))
  /\ \A i \in DOMAIN calls : CallRank(calls[i]) = i
  /\ Len(gridfs) = Cardinality(LargeFields)
  /\ Len(collection) = 1

\* blob b is referenced by the f_fs_id of an inserted document
Referenced(b) ==
  \E j \in DOMAIN collection : \E f \in LargeFields :
    /\ NonEmptyCalcs(collection[j])
    /\ HasKey(collection[j]["calcs_reversed"][1], FsIdKey(f))
    /\ collection[j]["calcs_reversed"][1][FsIdKey(f)] = b.id

\* C14: in every terminal state each blob the run stored is referenced by
\* the f_fs_id of a document that was inserted.
C14_NoDanglingBlob ==
  Terminal => \A i \in DOMAIN gridfs : Referenced(gridfs[i])

\* C15: when the assimilator fails, the run is aborted with the assimilator's
\* error and has done nothing else: the drone call is its only external
\* call, no file is written, no store is opened, no index is built, no blob
\* or document is inserted, no outcome is returned, and no step follows.
C15_AssimilationFailureHasNoEffect ==
  err = "AssimilationFailed" =>
     /\ pc = "ABORTED"
     /\ calls = <<Call("assimilate", calc_dir)>>
     /\ drone_doc = NoDoc /\ task_doc = NoDoc
     /\ files = <<>>
     /\ db = "None"
     /\ gridfs = <<>> /\ collection = <<>>
     /\ t_id = None
     /\ action = None
     /\ ~ENABLED Next

C15_Witness ==
  /\ err = "AssimilationFailed"
  /\ pc = "ABORTED"
  /\ task = "VaspToDbTask"
  /\ db_file = Str("db.json")
  /\ FieldEnabled("dos")
  /\ HasKey(self, "build_db") /\ HasKey(self, "db_indices")
  /\ db = "None"

----------------------------------------------------------------------------
(* Further properties of the location resolution (checked under SpecResolve) *)

FlagSelectorPresent ==
  /\ ~HasKey(self, "calc_dir")
  /\ HasKey(self, "calc_loc")
  /\ self["calc_loc"] = Bool("True")
  /\ HasKey(fw_spec, "calc_locs")

\* C16: with no calc_dir and calc_loc a truthy flag, the resolved directory
\* is the path of the last record of calc_locs whatever its name; with an
\* empty calc_locs the run aborts with NoLocationHistory and the assimilator
\* is not called.
C16_FlagPicksLastOrNoLocationHistory ==
  (FlagSelectorPresent /\ pc # "START") =>
     IF Len(fw_spec["calc_locs"]) = 0
       THEN pc = "ABORTED" /\ err = "NoLocationHistory" /\ calls = <<>>
       ELSE /\ ~ResolutionFailed
            /\ calc_dir =
                 fw_spec["calc_locs"][Len(fw_spec["calc_locs"])]["path"]
            /\ HandedDirs \subseteq {calc_dir}

NameSelectorUnmatched ==
  /\ ~HasKey(self, "calc_dir")
  /\ HasKey(self, "calc_loc")
  /\ self["calc_loc"] \in {Str(n) : n \in Names}
  /\ HasKey(fw_spec, "calc_locs")
  /\ \A i \in DOMAIN fw_spec["calc_locs"] :
       fw_spec["calc_locs"][i]["name"] # self["calc_loc"][2]

\* C17: with no calc_dir and a calc_loc name that no record of calc_locs
\* carries, the scan ends without an error and the run goes on with the
\* current working directory, which the assimilator is called with.
C17_UnmatchedNameFallsThroughToCwd ==
  (NameSelectorUnmatched /\ pc # "START") =>
     /\ ~ResolutionFailed
     /\ calc_dir = Cwd
     /\ HandedDirs \subseteq {Cwd}

----------------------------------------------------------------------------
(* Further properties of the offload and of the store (checked under Spec) *)

NamespaceOf(f) == IF f = "dos" THEN "dos_fs" ELSE "bandstructure_fs"

\* the fields whose blob has been stored, that is, whose offload has acted
OffloadedFields ==
  {f \in LargeFields :
     \E i \in DOMAIN gridfs : gridfs[i].namespace = NamespaceOf(f)}

ReferenceKeys(fields) ==
  {FsIdKey(f) : f \in fields} \cup {CompressionKey(f) : f \in fields}

\* `after` is `before` except that calcs_reversed[0] lost the keys `fields`
\* and gained their reference keys
DiffersOnlyInOwnKeys(before, after, fields) ==
  /\ DOMAIN after = DOMAIN before
  /\ \A k \in DOMAIN before \ {"calcs_reversed"} : after[k] = before[k]
  /\ Len(after["calcs_reversed"]) = Len(before["calcs_reversed"])
  /\ \A i \in 2..Len(before["calcs_reversed"]) :
       after["calcs_reversed"][i] = before["calcs_reversed"][i]
  /\ LET b == before["calcs_reversed"][1]
         a == after["calcs_reversed"][1]
     IN /\ DOMAIN a = (DOMAIN b \ fields) \cup ReferenceKeys(fields)
        /\ \A k \in DOMAIN b \ (fields \cup ReferenceKeys(fields)) :
             a[k] = b[k]

\* C18: the task document differs from the drone's document only in the own
\* keys of the offloaded fields in calcs_reversed[0]: each offloaded field
\* was replaced by its f_fs_id and f_compression; the top-level keys, the
\* other keys of calcs_reversed[0] and all older elements are unchanged.
C18_OffloadTouchesOnlyOwnKeys ==
  drone_doc # NoDoc =>
     IF OffloadedFields = {}
       THEN task_doc = drone_doc
       ELSE DiffersOnlyInOwnKeys(drone_doc, task_doc, OffloadedFields)

C18_Witness ==
  /\ pc = "DOS_OFFLOADED"
  /\ OffloadedFields = {"dos"}
  /\ FieldEnabled("bandstructure")
  /\ HasKey(drone_doc, "task_id")
  /\ Len(drone_doc["calcs_reversed"]) = MaxCalcs
  /\ DOMAIN drone_doc["calcs_reversed"][1] = FieldKeys
  /\ \A i \in 2..MaxCalcs : HasKey(task_doc["calcs_reversed"][i], "dos")
  /\ HasKey(task_doc["calcs_reversed"][1], "bandstructure")
  /\ ~HasKey(task_doc["calcs_reversed"][1], "dos")

\* C19 as claimed: a connection is opened only when a store is configured,
\* after the assimilator has succeeded and the store configuration has been
\* resolved, and in every terminal state (REPORTED, or ABORTED after a failed
\* index build, blob insert or document insert) the connection the run
\* opened has been released.
C19_ConnectionReleasedAtEnd ==
  /\ db = "open" =>
       /\ DbFileResolved
       /\ ~DbFileFalsy
       /\ drone_doc # NoDoc
       /\ CallCount("connect") = 1
  /\ Terminal => db # "open"

\* the index build is due: a store is configured, build_db is truthy and
\* db_indices is a non-empty list
BuildDue ==
  /\ StoreConfigured(db_file)
  /\ Truthy(Get(self, "build_db", Bool("False")))
  /\ Len(Get(self, "db_indices", <<>>)) > 0

BuildCalls == {i \in DOMAIN calls : calls[i].op = "build"}

\* the run has passed lines 88-90
PastBuild ==
  /\ task = "VaspToDbTask"
  /\ db = "open"
  /\ \/ pc \in {"INDEXED", "DOS_OFFLOADED", "OFFLOADED", "PERSISTED", "REPORTED"}
     \/ \E i \in DOMAIN calls : calls[i].op \in {"insert_gridfs", "insert"}

BlobOf(f) ==
  CHOOSE b \in {gridfs[i] : i \in DOMAIN gridfs} : b.namespace = NamespaceOf(f)

Amended(doc, f) ==
  IF f \in OffloadedFields
    THEN OffloadedDoc(doc, f, BlobOf(f).id, BlobOf(f).compression)
    ELSE doc

\* what the drone's document and the stored blobs alone determine
DocFromDroneAndBlobs == Amended(Amended(drone_doc, "dos"), "bandstructure")

\* C20: in VaspToDbTask the index build is invoked iff a store is configured,
\* build_db is truthy and db_indices is a non-empty list; it is invoked once,
\* with that list, before every blob insert and the document insert; the
\* inserted document and the outcome are determined by the drone's document
\* and the stored blobs alone, whether or not the build ran.
C20_BuildIffRequestedAndFirst ==
  (task = "VaspToDbTask") =>
     /\ CallCount("build") <= 1
     /\ \A i \in BuildCalls :
          /\ DbFileResolved
          /\ BuildDue
          /\ calls[i].arg = self["db_indices"]
          /\ \A j \in DOMAIN calls :
               calls[j].op \in {"insert_gridfs", "insert"} => i < j
     /\ PastBuild => ((CallCount("build") = 1) <=> BuildDue)
     /\ \A d \in InsertedDocs : d = DocFromDroneAndBlobs
     /\ pc = "REPORTED" /\ Len(collection) = 1 =>
          /\ collection[1] = DocFromDroneAndBlobs
          /\ action = FWAction(DocFromDroneAndBlobs)

C20_Witness ==
  /\ task = "VaspToDbTask"
  /\ pc = "REPORTED"
  /\ BuildDue
  /\ calls[3] = Call("build", <<"task_id">>)
  /\ CallCount("insert_gridfs") = 2
  /\ Len(collection) = 1

====
